---------------------------- MODULE Spec2Model ----------------------------
(***************************************************************************)
(* Student course enrollment (models.py, main.py): prerequisite checking,  *)
(* credit-limit enforcement and weekly schedule-conflict detection.        *)
(*                                                                         *)
(* A Course object is identified by its handle, its index in the catalog   *)
(* (Python compares Course objects by identity: the class defines no       *)
(* __eq__).  A datetime.time is the record [hour, minute] and is compared  *)
(* field by field, as datetime.time compares.                              *)
(***************************************************************************)
EXTENDS Integers, Sequences, FiniteSets, TLC

VARIABLES
    approved_courses,   \* Student.approved_courses: sequence of course handles
    enrollments,        \* Student.enrollments: sequence of Enrollment records
    last,               \* the last call made on the Student and what it reported
    passed_args,        \* history: the courses pass_course has been called with
    enrolled_ok,        \* history: the courses enroll_in has succeeded on, in call order
    main_pc,            \* how many statements of main.py the calls so far follow
    arg_a, arg_b,       \* overlaps_with: self and other (two slots, or the slot
                        \* lists of the courses of two enrollments)
    ret                 \* overlaps_with: <<>>, then << the value returned >>

vars == <<approved_courses, enrollments, last, passed_args, enrolled_ok,
          main_pc, arg_a, arg_b, ret>>

student_vars == <<approved_courses, enrollments, last, passed_args,
                  enrolled_ok, main_pc>>

-----------------------------------------------------------------------------
(* Bounds *)

\* The catalog holds the first NumCourses courses of CatalogSeq.
NumCourses == 5

\* Schedule.overlaps_with is tried on times from 08:00 to MaxHour:30.
MaxHour == 10

\* The runs explored approve up to MaxApproved different courses.
MaxApproved == 3

\* pass_course is repeated up to MaxRepeat times in a row.
MaxRepeat == 3

\* Enrollment.overlaps_with is tried on courses of up to MaxSlots slots.
MaxSlots == 2

-----------------------------------------------------------------------------
(* datetime.time *)

time(h, m) == [hour |-> h, minute |-> m]

\* a <= b on datetime.time
TimeLE(a, b) ==
    \/ a.hour < b.hour
    \/ a.hour = b.hour /\ a.minute <= b.minute

\* a >= b on datetime.time
TimeGE(a, b) ==
    \/ a.hour > b.hour
    \/ a.hour = b.hour /\ a.minute >= b.minute

-----------------------------------------------------------------------------
(* class Schedule *)

Schedule(day, start, end) == [day |-> day, start |-> start, end |-> end]

\* a < b and a > b on datetime.time, for the mutants below
TimeLT(a, b) == ~TimeGE(a, b)

TimeGT(a, b) == ~TimeLE(a, b)

\* A mutant of Schedule_overlaps_with: self.end < other.start for <=.
Schedule_overlaps_with_halfStrict(self, other) ==
    IF self.day # other.day
    THEN FALSE
    ELSE ~(TimeLT(self.end, other.start) \/ TimeGE(self.start, other.end))

\* A mutant of Schedule_overlaps_with: both comparisons strict, so that slots
\* that touch overlap.
Schedule_overlaps_with_closed(self, other) ==
    IF self.day # other.day
    THEN FALSE
    ELSE ~(TimeLT(self.end, other.start) \/ TimeGT(self.start, other.end))

\* A mutant of Schedule_overlaps_with: self.start > other.end for >=.
Schedule_overlaps_with_endInclusive(self, other) ==
    IF self.day # other.day
    THEN FALSE
    ELSE ~(TimeLE(self.end, other.start) \/ TimeGT(self.start, other.end))

\* A mutant of Schedule_overlaps_with: the day test is lost.
Schedule_overlaps_with_anyDay(self, other) ==
    ~(TimeLE(self.end, other.start) \/ TimeGE(self.start, other.end))

Schedule_overlaps_with(self, other) ==
    IF self.day # other.day
    THEN FALSE
    ELSE ~(TimeLE(self.end, other.start) \/ TimeGE(self.start, other.end))

-----------------------------------------------------------------------------
(* class Course, and the catalog the callers construct *)

Course(code, credits, semester, prerequisites, schedules) ==
    [code |-> code, credits |-> credits, semester |-> semester,
     prerequisites |-> prerequisites, schedules |-> schedules]

\* main.py's three courses, then further courses a caller may construct.
\* A prerequisite is the handle of a course constructed earlier.
CatalogSeq ==
    << Course("INF101", 4, 1, <<>>,
              << Schedule("Monday", time(8, 0), time(10, 0)) >>),
       Course("INF201", 4, 2, <<1>>,
              << Schedule("Tuesday", time(10, 0), time(12, 0)) >>),
       Course("MAT101", 6, 1, <<>>,
              << Schedule("Monday", time(9, 30), time(11, 30)) >>),
       Course("SEM100", 12, 1, <<>>, <<>>),
       Course("TES301", 8, 3, <<3, 2>>,
              << Schedule("Tuesday", time(12, 0), time(14, 0)) >>),
       Course("FIS101", 12, 1, <<>>,
              << Schedule("Wednesday", time(8, 0), time(10, 0)),
                 Schedule("Monday", time(10, 0), time(12, 0)) >>) >>

Courses == 1..NumCourses

prog1 == 1
prog2 == 2
mat1 == 3

-----------------------------------------------------------------------------
(* class Enrollment *)

Enrollment(course) == [course |-> course]

\* A mutant of overlaps_inner: the loop returns after its first slot.
overlaps_inner_firstOnly(s1, others) ==
    IF others = <<>> THEN FALSE
    ELSE Schedule_overlaps_with(s1, Head(others))

\* models.py lines 40-42: the inner loop, over the other course's slots
RECURSIVE overlaps_inner(_, _)
overlaps_inner(s1, others) ==
    IF others = <<>> THEN FALSE
    ELSE IF Schedule_overlaps_with(s1, Head(others)) THEN TRUE
    ELSE overlaps_inner(s1, Tail(others))

\* models.py lines 39-43: the outer loop, over this course's slots
RECURSIVE overlaps_outer(_, _)
overlaps_outer(mine, others) ==
    IF mine = <<>> THEN FALSE
    ELSE IF overlaps_inner(Head(mine), others) THEN TRUE
    ELSE overlaps_outer(Tail(mine), others)

Enrollment_overlaps_with(self, other_enrollment) ==
    overlaps_outer(CatalogSeq[self.course].schedules,
                   CatalogSeq[other_enrollment.course].schedules)

-----------------------------------------------------------------------------
(* class Student *)

Range(s) == { s[i] : i \in DOMAIN s }

RECURSIVE SumCredits(_)
SumCredits(es) ==
    IF es = <<>> THEN 0
    ELSE CatalogSeq[Head(es).course].credits + SumCredits(Tail(es))

total_credits == SumCredits(enrollments)

CreditLimit == 24

AlreadyEnrolledMsg == "You are already enrolled in this course."
CreditLimitMsg == "Exceeds credit limit."
ConflictMsg == "Schedule conflict with another course."
ValidMsg == "Enrollment valid."
MissingPrereqMsg(p) == "Missing prerequisite: " \o CatalogSeq[p].code

\* A mutant of AlreadyEnrolled: the test is lost.
AlreadyEnrolled_never(course) == FALSE

\* models.py line 57
AlreadyEnrolled(course) ==
    \E i \in DOMAIN enrollments : enrollments[i].course = course

\* A mutant of PrereqMissing: being enrolled in the prerequisite satisfies it.
PrereqMissing_enrolledCounts(prereq) ==
    /\ prereq \notin Range(approved_courses)
    /\ ~AlreadyEnrolled(prereq)

\* models.py line 62, for one prerequisite
PrereqMissing(prereq) == prereq \notin Range(approved_courses)

\* A mutant of MissingPrereqs: only the first prerequisite is looked at.
MissingPrereqs_firstOnly(course) ==
    { i \in DOMAIN CatalogSeq[course].prerequisites :
        i = 1 /\ PrereqMissing(CatalogSeq[course].prerequisites[i]) }

\* models.py lines 61-63: the indexes of the prerequisites that are missing
MissingPrereqs(course) ==
    { i \in DOMAIN CatalogSeq[course].prerequisites :
        PrereqMissing(CatalogSeq[course].prerequisites[i]) }

Min(S) == CHOOSE x \in S : \A y \in S : x <= y

Max(S) == CHOOSE x \in S : \A y \in S : x >= y

\* A mutant of FirstMissingPrereq: the loop runs on and reports the last
\* missing prerequisite.
FirstMissingPrereq_last(course) ==
    CatalogSeq[course].prerequisites[Max(MissingPrereqs(course))]

\* the prerequisite the loop of lines 61-63 returns on: the first missing one
FirstMissingPrereq(course) ==
    CatalogSeq[course].prerequisites[Min(MissingPrereqs(course))]

\* A mutant of ExceedsCreditLimit: the candidate's credits are not added.
ExceedsCreditLimit_currentOnly(course) ==
    total_credits > CreditLimit

\* A mutant of ExceedsCreditLimit: >= for >.
ExceedsCreditLimit_atLeast(course) ==
    total_credits + CatalogSeq[course].credits >= CreditLimit

\* models.py line 66
ExceedsCreditLimit(course) ==
    total_credits + CatalogSeq[course].credits > CreditLimit

\* A mutant of HasScheduleConflict: only the first enrollment is tested.
HasScheduleConflict_firstOnly(course) ==
    /\ enrollments # <<>>
    /\ Enrollment_overlaps_with(Enrollment(course), enrollments[1])

\* models.py lines 70-73
HasScheduleConflict(course) ==
    \E i \in DOMAIN enrollments :
        Enrollment_overlaps_with(Enrollment(course), enrollments[i])

Result(ok, reason) == [ok |-> ok, reason |-> reason]

\* A mutant of can_enroll_in: the credit limit is tested first.
can_enroll_in_creditFirst(course) ==
    IF ExceedsCreditLimit(course)
        THEN Result(FALSE, CreditLimitMsg)
    ELSE IF AlreadyEnrolled(course)
        THEN Result(FALSE, AlreadyEnrolledMsg)
    ELSE IF MissingPrereqs(course) # {}
        THEN Result(FALSE, MissingPrereqMsg(FirstMissingPrereq(course)))
    ELSE IF HasScheduleConflict(course)
        THEN Result(FALSE, ConflictMsg)
    ELSE Result(TRUE, ValidMsg)

\* A mutant of can_enroll_in: the overlap rule is tested before the credit limit.
can_enroll_in_overlapBeforeCredit(course) ==
    IF AlreadyEnrolled(course)
        THEN Result(FALSE, AlreadyEnrolledMsg)
    ELSE IF MissingPrereqs(course) # {}
        THEN Result(FALSE, MissingPrereqMsg(FirstMissingPrereq(course)))
    ELSE IF HasScheduleConflict(course)
        THEN Result(FALSE, ConflictMsg)
    ELSE IF ExceedsCreditLimit(course)
        THEN Result(FALSE, CreditLimitMsg)
    ELSE Result(TRUE, ValidMsg)

can_enroll_in(course) ==
    IF AlreadyEnrolled(course)
        THEN Result(FALSE, AlreadyEnrolledMsg)
    ELSE IF MissingPrereqs(course) # {}
        THEN Result(FALSE, MissingPrereqMsg(FirstMissingPrereq(course)))
    ELSE IF ExceedsCreditLimit(course)
        THEN Result(FALSE, CreditLimitMsg)
    ELSE IF HasScheduleConflict(course)
        THEN Result(FALSE, ConflictMsg)
    ELSE Result(TRUE, ValidMsg)

\* main.py lines 21-27
MainScript ==
    << <<"enroll_in", prog1>>, <<"enroll_in", prog2>>, <<"enroll_in", mat1>>,
       <<"pass_course", prog1>>, <<"enroll_in", mat1>> >>

Off == -1

\* main_pc after the call op(course)
FollowScript(op, course) ==
    IF main_pc # Off /\ main_pc < Len(MainScript)
       /\ MainScript[main_pc + 1] = <<op, course>>
    THEN main_pc + 1
    ELSE Off

Call(op, course, ok, reason) ==
    [op |-> op, course |-> course, ok |-> ok, reason |-> reason]

\* What enroll_in(course) reports and leaves alone.
enroll_in_frame(course) ==
    /\ last' = Call("enroll_in", course, can_enroll_in(course).ok,
                    can_enroll_in(course).reason)
    /\ enrolled_ok' = IF can_enroll_in(course).ok
                      THEN Append(enrolled_ok, course)
                      ELSE enrolled_ok
    /\ main_pc' = FollowScript("enroll_in", course)
    /\ UNCHANGED <<approved_courses, passed_args>>
    /\ UNCHANGED <<arg_a, arg_b, ret>>

\* A mutant of enroll_in: the enrollment is appended whatever can_enroll_in says.
enroll_in_unchecked(course) ==
    /\ enrollments' = Append(enrollments, Enrollment(course))
    /\ enroll_in_frame(course)

\* A mutant of enroll_in: the new enrollment is put first.
enroll_in_insertFirst(course) ==
    /\ enrollments' = IF can_enroll_in(course).ok
                      THEN <<Enrollment(course)>> \o enrollments
                      ELSE enrollments
    /\ enroll_in_frame(course)

enroll_in(course) ==
    /\ enrollments' = IF can_enroll_in(course).ok
                      THEN Append(enrollments, Enrollment(course))
                      ELSE enrollments
    /\ enroll_in_frame(course)

\* The Student's two lists, as one value.
StudentState(approved, enrolls) ==
    [approved_courses |-> approved, enrollments |-> enrolls]

student == StudentState(approved_courses, enrollments)

\* A mutant of after_pass_course: the course is appended without the test.
after_pass_course_noTest(self, course) ==
    StudentState(Append(self.approved_courses, course), self.enrollments)

\* A mutant of after_pass_course: passing a course ends its enrollment.
after_pass_course_dropsEnrollment(self, course) ==
    StudentState(
        IF course \notin Range(self.approved_courses)
        THEN Append(self.approved_courses, course)
        ELSE self.approved_courses,
        SelectSeq(self.enrollments, LAMBDA e : e.course # course))

\* A mutant of after_pass_course: a course passed again moves to the end.
after_pass_course_moveToEnd(self, course) ==
    StudentState(
        Append(SelectSeq(self.approved_courses, LAMBDA c : c # course), course),
        self.enrollments)

\* The Student's lists after self.pass_course(course)
after_pass_course(self, course) ==
    IF course \notin Range(self.approved_courses)
    THEN StudentState(Append(self.approved_courses, course), self.enrollments)
    ELSE self

pass_course(course) ==
    /\ course \in Range(approved_courses) \/ Len(approved_courses) < MaxApproved
    /\ approved_courses' = after_pass_course(student, course).approved_courses
    /\ enrollments' = after_pass_course(student, course).enrollments
    /\ passed_args' = passed_args \cup {course}
    /\ last' = Call("pass_course", course, TRUE, "")
    /\ main_pc' = FollowScript("pass_course", course)
    /\ UNCHANGED enrolled_ok
    /\ UNCHANGED <<arg_a, arg_b, ret>>

NoSlot == Schedule("", time(0, 0), time(0, 0))

StudentInit ==
    /\ approved_courses = <<>>
    /\ enrollments = <<>>
    /\ last = Call("none", 0, FALSE, "")
    /\ passed_args = {}
    /\ enrolled_ok = <<>>
    /\ main_pc = 0

Init ==
    /\ StudentInit
    /\ arg_a = NoSlot
    /\ arg_b = NoSlot
    /\ ret = <<>>

Next ==
    \E course \in Courses :
        \/ enroll_in(course)
        \/ pass_course(course)

Spec == Init /\ [][Next]_vars

-----------------------------------------------------------------------------
(* Schedule.overlaps_with on every pair of slots within the bounds; the    *)
(* slots include those with start >= end, which nothing rejects.           *)

Days == {"Monday", "Tuesday"}

Times == { time(h, m) : h \in 8..MaxHour, m \in {0, 30} }

Slots == { Schedule(d, s, e) : d \in Days, s \in Times, e \in Times }

ScheduleInit ==
    /\ StudentInit
    /\ arg_a \in Slots
    /\ arg_b \in Slots
    /\ ret = <<>>

overlaps_with_call ==
    /\ ret = <<>>
    /\ ret' = << Schedule_overlaps_with(arg_a, arg_b) >>
    /\ UNCHANGED <<arg_a, arg_b>>
    /\ UNCHANGED student_vars

ScheduleNext == overlaps_with_call

SpecSchedule == ScheduleInit /\ [][ScheduleNext]_vars

-----------------------------------------------------------------------------
(* Enrollment.overlaps_with on every pair of courses of up to MaxSlots      *)
(* two-hour slots.                                                         *)

ListSlots ==
    { Schedule(d, time(h, 0), time(h + 2, 0)) : d \in Days, h \in 8..MaxHour }

SlotLists == UNION { [1..n -> ListSlots] : n \in 0..MaxSlots }

EnrollmentInit ==
    /\ StudentInit
    /\ arg_a \in SlotLists
    /\ arg_b \in SlotLists
    /\ ret = <<>>

enrollment_overlaps_call ==
    /\ ret = <<>>
    /\ ret' = << overlaps_outer(arg_a, arg_b) >>
    /\ UNCHANGED <<arg_a, arg_b>>
    /\ UNCHANGED student_vars

EnrollmentNext == enrollment_overlaps_call

SpecEnrollment == EnrollmentInit /\ [][EnrollmentNext]_vars

-----------------------------------------------------------------------------
(* Properties of the Student, checked under Spec *)

\* The courses of the active enrollments, in list order.
EnrolledCourses == [ i \in DOMAIN enrollments |-> enrollments[i].course ]

\* C1: in every reachable state the credits of the active enrollments sum to
\* at most 24.
C1_CreditsWithinLimit == total_credits <= CreditLimit

\* C1's case: the student holds exactly 24 credits and the last enroll_in was
\* refused for the credit limit.
C1_Witness ==
    /\ last.op = "enroll_in"
    /\ last.reason = CreditLimitMsg
    /\ total_credits = CreditLimit

\* C2: no two entries of the active enrollment list refer to the same Course
\* object.
C2_NoDuplicateEnrollment ==
    \A i, j \in DOMAIN enrollments :
        i # j => enrollments[i].course # enrollments[j].course

\* C2's case: a second enroll_in of an enrolled course was refused, and only the
\* already-enrolled rule stood in its way.
C2_Witness ==
    /\ last.op = "enroll_in"
    /\ last.reason = AlreadyEnrolledMsg
    /\ ~ExceedsCreditLimit(last.course)
    /\ ~HasScheduleConflict(last.course)

\* C3: while some prerequisite of a course c has not been the argument of a
\* pass_course call, can_enroll_in(c) is not ok, c is not among the active
\* enrollments and an enroll_in(c) just made has failed; being enrolled in the
\* prerequisite does not count.
C3_UnmetPrerequisiteBlocks ==
    \A c \in Courses :
        (\E i \in DOMAIN CatalogSeq[c].prerequisites :
            CatalogSeq[c].prerequisites[i] \notin passed_args)
        => /\ ~can_enroll_in(c).ok
           /\ c \notin Range(EnrolledCourses)
           /\ (last.op = "enroll_in" /\ last.course = c => ~last.ok)

\* C3's case: prog1 is enrolled and was never passed, and enroll_in(prog2) has
\* just been refused for the prerequisite prog1.
C3_Witness ==
    /\ prog1 \in Range(enrolled_ok)
    /\ prog1 \notin passed_args
    /\ last = Call("enroll_in", prog2, FALSE, MissingPrereqMsg(prog1))

\* C4: once enroll_in(c) has succeeded, can_enroll_in(c) fails with the
\* already-enrolled reason in every later state, and so does every later
\* enroll_in(c), whatever other rules would fail too.
C4_SecondEnrollFails ==
    \A c \in Range(enrolled_ok) :
        /\ can_enroll_in(c) = Result(FALSE, AlreadyEnrolledMsg)
        /\ (last.op = "enroll_in" /\ last.course = c /\ ~last.ok
                => last.reason = AlreadyEnrolledMsg)

\* C4's case: an enroll_in of an enrolled course was refused as already
\* enrolled while the credit and the overlap rules would have refused it too.
C4_Witness ==
    /\ last.op = "enroll_in"
    /\ last.reason = AlreadyEnrolledMsg
    /\ ExceedsCreditLimit(last.course)
    /\ HasScheduleConflict(last.course)

\* C5: a step enroll_in(course) taken where can_enroll_in(course) fails leaves
\* the active enrollments and approved_courses as they were.
C5_FailedEnrollChangesNothing ==
    [][ (last'.op = "enroll_in" /\ ~can_enroll_in(last'.course).ok)
            => /\ enrollments' = enrollments
               /\ approved_courses' = approved_courses ]_vars

\* C5's case: an enroll_in has just failed on a student who holds enrollments
\* and approved courses.
C5_Witness ==
    /\ last.op = "enroll_in"
    /\ ~last.ok
    /\ enrollments # <<>>
    /\ approved_courses # <<>>

\* C6: a step enroll_in(course) taken where can_enroll_in(course) is ok appends
\* one enrollment for the course at the end of the list, keeps the earlier ones
\* in their order, so that the list follows the order of the successful calls,
\* and leaves approved_courses unchanged.
C6_SuccessfulEnrollAppends ==
    [][ (last'.op = "enroll_in" /\ can_enroll_in(last'.course).ok)
            => /\ enrollments' = Append(enrollments, Enrollment(last'.course))
               /\ EnrolledCourses' = enrolled_ok'
               /\ approved_courses' = approved_courses ]_vars

\* C6's case: an enroll_in has just succeeded on a student who already held an
\* enrollment and approved courses.
C6_Witness ==
    /\ last.op = "enroll_in"
    /\ last.ok
    /\ Len(enrollments) >= 2
    /\ enrollments[Len(enrollments)].course = last.course
    /\ approved_courses # <<>>

\* C7: after main.py's calls enroll_in(prog1), enroll_in(prog2),
\* enroll_in(mat1), pass_course(prog1), enroll_in(mat1) on a fresh student, the
\* last enroll_in has succeeded, total_credits() is 10 and prog2 is not
\* enrolled.
C7_ReferenceScenario ==
    main_pc = Len(MainScript)
        => /\ last.ok
           /\ total_credits = 10
           /\ prog2 \notin Range(EnrolledCourses)

\* The Student's lists after n calls of pass_course(course) in a row.
RECURSIVE pass_course_times(_, _, _)
pass_course_times(self, course, n) ==
    IF n = 0 THEN self
    ELSE after_pass_course(pass_course_times(self, course, n - 1), course)

\* C8: from every reachable state and for every course, pass_course called n
\* times in a row, n >= 1, leaves the same approved_courses and the same
\* enrollments as one call.
C8_PassCourseIdempotent ==
    \A c \in Courses : \A n \in 1..MaxRepeat :
        pass_course_times(student, c, n) = after_pass_course(student, c)

\* C8's case: pass_course has just been called again on the course that was
\* approved first, with other courses approved since.
C8_Witness ==
    /\ last.op = "pass_course"
    /\ Len(approved_courses) >= 2
    /\ approved_courses[1] = last.course
    /\ enrollments # <<>>

\* C9: a step pass_course(course) leaves the active enrollments as they were
\* and ends with the course in approved_courses, enrolled or not.
C9_PassCourseFrame ==
    [][ last'.op = "pass_course"
            => /\ enrollments' = enrollments
               /\ last'.course \in Range(approved_courses') ]_vars

\* C9's case: pass_course has just approved a course the student never enrolled
\* in, while another course is both enrolled and approved.
C9_Witness ==
    /\ last.op = "pass_course"
    /\ last.course \notin Range(enrolled_ok)
    /\ last.course \in Range(approved_courses)
    /\ Range(EnrolledCourses) \cap Range(approved_courses) # {}

\* The indexes of course c's prerequisites that are not in approved_courses.
Unapproved(c) ==
    { i \in DOMAIN CatalogSeq[c].prerequisites :
        \A k \in DOMAIN approved_courses :
            approved_courses[k] # CatalogSeq[c].prerequisites[i] }

\* The rules of can_enroll_in that fail for course c in the current state:
\* 1 already enrolled, 2 prerequisite, 3 credit limit, 4 schedule overlap.
FailingRules(c) ==
    { r \in 1..4 :
        \/ r = 1 /\ c \in Range(EnrolledCourses)
        \/ r = 2 /\ Unapproved(c) # {}
        \/ r = 3 /\ SumCredits(enrollments) + CatalogSeq[c].credits > CreditLimit
        \/ r = 4 /\ \E i \in DOMAIN enrollments :
                       Enrollment_overlaps_with(Enrollment(c), enrollments[i]) }

\* The rule a reason belongs to; 0 for the message of success.
MissingPrereqMsgs == { MissingPrereqMsg(p) : p \in DOMAIN CatalogSeq }

RuleOf(reason) ==
    IF reason = AlreadyEnrolledMsg THEN 1
    ELSE IF reason \in MissingPrereqMsgs THEN 2
    ELSE IF reason = CreditLimitMsg THEN 3
    ELSE IF reason = ConflictMsg THEN 4
    ELSE 0

\* C15: can_enroll_in succeeds exactly when none of the four rules fails, and
\* otherwise returns the reason of the earliest failing rule in the order
\* already-enrolled, prerequisite, credit-limit, schedule-overlap; a failed
\* enroll_in has reported that reason.
C15_FirstFailingRuleReported ==
    /\ \A c \in Courses :
        LET r == can_enroll_in(c)
            failing == FailingRules(c)
        IN  /\ r.ok <=> failing = {}
            /\ r.ok => r.reason = ValidMsg
            /\ failing # {} => RuleOf(r.reason) = Min(failing)
    /\ (last.op = "enroll_in" /\ ~last.ok)
        => RuleOf(last.reason) = Min(FailingRules(last.course))

\* C15's case: an enroll_in was refused for the credit limit where the overlap
\* rule fails too.
C15_Witness ==
    /\ last.op = "enroll_in"
    /\ last.reason = CreditLimitMsg
    /\ FailingRules(last.course) = {3, 4}

\* The first of course c's prerequisites, in listed order, that is not approved.
FirstUnapproved(c) ==
    CatalogSeq[c].prerequisites[
        CHOOSE i \in Unapproved(c) : \A j \in 1..(i - 1) : j \notin Unapproved(c)]

\* C16: for a course that is not enrolled and has several prerequisites missing
\* from approved_courses, can_enroll_in fails with the missing-prerequisite
\* reason naming the code of the first missing one in listed order, not that
\* of another missing one, and an enroll_in of it has reported the same.
C16_FirstMissingPrerequisiteNamed ==
    \A c \in Courses :
        (c \notin Range(EnrolledCourses) /\ Cardinality(Unapproved(c)) >= 2)
        => LET first == FirstUnapproved(c)
               named == "Missing prerequisite: " \o CatalogSeq[first].code
           IN  /\ can_enroll_in(c) = Result(FALSE, named)
               /\ \A i \in Unapproved(c) :
                    CatalogSeq[c].prerequisites[i] # first
                    => can_enroll_in(c).reason
                         # "Missing prerequisite: "
                             \o CatalogSeq[CatalogSeq[c].prerequisites[i]].code
               /\ (last.op = "enroll_in" /\ last.course = c)
                    => last = Call("enroll_in", c, FALSE, named)

\* C16's case: an enroll_in of a course with two missing prerequisites has been
\* refused, naming the one listed first.
C16_Witness ==
    /\ last.op = "enroll_in"
    /\ Cardinality(Unapproved(last.course)) = 2
    /\ last.reason = "Missing prerequisite: "
            \o CatalogSeq[CatalogSeq[last.course].prerequisites[1]].code

\* C17: a candidate that passes the already-enrolled and the prerequisite rules
\* fails with the credit-limit reason exactly when total_credits() +
\* course.credits > 24, and an enroll_in refused for the credit limit was over
\* 24; a candidate that brings the total to 24 is not refused for it.
C17_CreditLimitIsStrict ==
    /\ \A c \in Courses :
        (c \notin Range(EnrolledCourses) /\ Unapproved(c) = {})
        => (can_enroll_in(c) = Result(FALSE, CreditLimitMsg)
                <=> SumCredits(enrollments) + CatalogSeq[c].credits > 24)
    /\ (last.op = "enroll_in" /\ last.reason = CreditLimitMsg)
        => SumCredits(enrollments) + CatalogSeq[last.course].credits > 24

\* C17's case: an enroll_in has just succeeded and brought the total to
\* exactly 24 credits.
C17_Witness ==
    /\ last.op = "enroll_in"
    /\ last.ok
    /\ total_credits = 24

IsPrefix(s, t) == Len(s) <= Len(t) /\ SubSeq(t, 1, Len(s)) = s

\* C18: across every step the enrolled courses and the approved courses lose
\* no element, and each of the two lists changes only by growing at its end.
C18_ListsOnlyGrow ==
    [][ /\ IsPrefix(enrollments, enrollments')
        /\ IsPrefix(approved_courses, approved_courses')
        /\ Len(enrollments') <= Len(enrollments) + 1
        /\ Len(approved_courses') <= Len(approved_courses) + 1
        /\ Range(EnrolledCourses) \subseteq Range(EnrolledCourses')
        /\ Range(approved_courses) \subseteq Range(approved_courses') ]_vars

\* C18's case: an enroll_in has just made a third enrollment on a student with
\* two approved courses.
C18_Witness ==
    /\ last.op = "enroll_in"
    /\ last.ok
    /\ Len(enrollments) >= 3
    /\ Len(approved_courses) >= 2

\* C19: no two distinct active enrollments overlap in schedule.
C19_NoOverlappingEnrollments ==
    \A i, j \in DOMAIN enrollments :
        i # j => ~Enrollment_overlaps_with(enrollments[i], enrollments[j])

\* C19's case: an enroll_in was refused for a schedule conflict with an
\* enrollment that is not the first of the list.
C19_Witness ==
    /\ last.op = "enroll_in"
    /\ last.reason = ConflictMsg
    /\ Len(enrollments) >= 2
    /\ ~Enrollment_overlaps_with(Enrollment(last.course), enrollments[1])

\* C20: every course of the active enrollments has all of its direct
\* prerequisites in approved_courses.
C20_EnrolledPrerequisitesApproved ==
    \A i \in DOMAIN enrollments :
        \A k \in DOMAIN CatalogSeq[enrollments[i].course].prerequisites :
            CatalogSeq[enrollments[i].course].prerequisites[k]
                \in Range(approved_courses)

\* C20's case: an enroll_in of a course with two prerequisites has just
\* succeeded.
C20_Witness ==
    /\ last.op = "enroll_in"
    /\ last.ok
    /\ Len(CatalogSeq[last.course].prerequisites) >= 2
    /\ last.course \in Range(EnrolledCourses)

-----------------------------------------------------------------------------
(* Properties of Schedule.overlaps_with, checked under SpecSchedule *)

\* A time as minutes since midnight.
MinuteOfDay(t) == 60 * t.hour + t.minute

\* C10: a.overlaps_with(b) is true exactly when the days are equal and not
\* (a.end <= b.start or a.start >= b.end); it is false whenever the days
\* differ.
C10_OverlapContract ==
    ret # <<>> =>
        /\ ret[1] = (/\ arg_a.day = arg_b.day
                     /\ ~(\/ MinuteOfDay(arg_a.end) <= MinuteOfDay(arg_b.start)
                          \/ MinuteOfDay(arg_a.start) >= MinuteOfDay(arg_b.end)))
        /\ (arg_a.day # arg_b.day => ret[1] = FALSE)

\* C10's case: overlaps_with has returned false for two slots with the same
\* times on different days.
C10_Witness ==
    /\ ret = <<FALSE>>
    /\ arg_a.day # arg_b.day
    /\ arg_a.start = arg_b.start
    /\ arg_a.end = arg_b.end
    /\ MinuteOfDay(arg_a.start) < MinuteOfDay(arg_a.end)

\* C11: overlap is symmetric: for all slots a and b, those with start >= end
\* included, a.overlaps_with(b) equals b.overlaps_with(a).
C11_OverlapSymmetric ==
    ret # <<>> => ret[1] = Schedule_overlaps_with(arg_b, arg_a)

\* C11's case: overlaps_with has returned true for two different slots, one of
\* them with its start after its end.
C11_Witness ==
    /\ ret = <<TRUE>>
    /\ arg_a # arg_b
    /\ MinuteOfDay(arg_a.start) > MinuteOfDay(arg_a.end)

\* The courses whose only slot is s.
OnlySlot(c, s) == CatalogSeq[c].schedules = <<s>>

\* C12: for slots a and b on the same day with a.end = b.start, neither
\* a.overlaps_with(b) nor b.overlaps_with(a) is true; so an enrollment in a
\* course whose slot ends at t does not overlap with a course whose only slot
\* starts at t on that day.
C12_AdjacentSlotsDoNotOverlap ==
    /\ (ret # <<>> /\ arg_a.day = arg_b.day
            /\ MinuteOfDay(arg_a.end) = MinuteOfDay(arg_b.start))
        => /\ ret[1] = FALSE
           /\ Schedule_overlaps_with(arg_b, arg_a) = FALSE
    /\ \A c, d \in Courses :
        \A i \in DOMAIN CatalogSeq[c].schedules :
           \A j \in DOMAIN CatalogSeq[d].schedules :
              LET s == CatalogSeq[c].schedules[i]
                  t == CatalogSeq[d].schedules[j]
              IN  (OnlySlot(c, s) /\ OnlySlot(d, t) /\ s.day = t.day
                      /\ MinuteOfDay(s.end) = MinuteOfDay(t.start))
                  => /\ ~Enrollment_overlaps_with(Enrollment(d), Enrollment(c))
                     /\ ~Enrollment_overlaps_with(Enrollment(c), Enrollment(d))

\* C12's case: overlaps_with has returned for two well-formed slots of one day,
\* the second starting when the first ends.
C12_Witness ==
    /\ ret = <<FALSE>>
    /\ arg_a.day = arg_b.day
    /\ arg_a.end = arg_b.start
    /\ MinuteOfDay(arg_a.start) < MinuteOfDay(arg_a.end)
    /\ MinuteOfDay(arg_b.start) < MinuteOfDay(arg_b.end)

\* A slot with start = end.
ZeroLength(s) == MinuteOfDay(s.start) = MinuteOfDay(s.end)

\* C13, as claimed: a zero-length slot overlaps with nothing, in either
\* direction: whenever self or other is zero-length, overlaps_with is false
\* both ways.
C13_ZeroLengthNeverOverlaps ==
    (ret # <<>> /\ (ZeroLength(arg_a) \/ ZeroLength(arg_b)))
        => /\ ret[1] = FALSE
           /\ Schedule_overlaps_with(arg_b, arg_a) = FALSE

\* The instant of a zero-length slot z lies strictly inside the slot s.
StrictlyInside(z, s) ==
    /\ z.day = s.day
    /\ MinuteOfDay(s.start) < MinuteOfDay(z.start)
    /\ MinuteOfDay(z.start) < MinuteOfDay(s.end)

\* C13, amended: a zero-length slot z overlaps with a slot s, in either
\* direction, exactly when s is on z's day and z's instant lies strictly
\* between s.start and s.end; so it overlaps with no slot of another day, with
\* no zero-length slot (a copy of itself included) and with no slot that starts
\* or ends at its instant.
C13_ZeroLengthOverlapsOnlyInside ==
    (ret # <<>> /\ ZeroLength(arg_a))
        => /\ ret[1] = StrictlyInside(arg_a, arg_b)
           /\ Schedule_overlaps_with(arg_b, arg_a) = StrictlyInside(arg_a, arg_b)
           /\ (ZeroLength(arg_b) => ret[1] = FALSE)

\* C13's case: overlaps_with has returned false for a zero-length slot and a
\* copy of it.
C13_Witness ==
    /\ ret = <<FALSE>>
    /\ ZeroLength(arg_a)
    /\ arg_b = arg_a

-----------------------------------------------------------------------------
(* Properties of Enrollment.overlaps_with, checked under SpecEnrollment *)

\* C14: e1.overlaps_with(e2) is true exactly when some slot of e1's course
\* overlaps with some slot of e2's course; so it is false when either course
\* has no slot, and a catalog course without slots overlaps with no course, in
\* either direction.
C14_EnrollmentOverlapIsAnyPair ==
    /\ ret # <<>> =>
        /\ ret[1] = (\E i \in DOMAIN arg_a : \E j \in DOMAIN arg_b :
                        Schedule_overlaps_with(arg_a[i], arg_b[j]))
        /\ (arg_a = <<>> \/ arg_b = <<>>) => ret[1] = FALSE
    /\ \A c, d \in Courses :
        CatalogSeq[c].schedules = <<>>
            => /\ ~Enrollment_overlaps_with(Enrollment(c), Enrollment(d))
               /\ ~Enrollment_overlaps_with(Enrollment(d), Enrollment(c))

\* C14's case: overlaps_with has returned true for two courses of two slots
\* each, of which only the last slots overlap.
C14_Witness ==
    /\ ret = <<TRUE>>
    /\ Len(arg_a) = 2
    /\ Len(arg_b) = 2
    /\ ~Schedule_overlaps_with(arg_a[1], arg_b[1])
    /\ ~Schedule_overlaps_with(arg_a[1], arg_b[2])
    /\ ~Schedule_overlaps_with(arg_a[2], arg_b[1])

=============================================================================
